---- MODULE Spec2Model ----
(***************************************************************************)
(* A model of ttymidi-sysex.c: the bridge between a serial line carrying   *)
(* MIDI bytes and the ALSA sequencer.                                      *)
(*                                                                         *)
(*   serial -> sink   : read_midi_from_serial_port + parse_midi_command    *)
(*   source -> serial : read_midi_from_alsa + write_midi_action_to_serial_port *)
(*                                                                         *)
(* Bytes are integers 0..255.  An ALSA event (snd_seq_event_t) is a record *)
(* [type, channel, param, value, ext]: param/value are data.note.note and  *)
(* data.note.velocity for the note events, data.control.param and          *)
(* data.control.value for the others; ext is the sysex block (data.ext).   *)
(* snd_seq_ev_clear zeroes the event, so fields a case does not set are 0. *)
(*                                                                         *)
(* History (ghost) fields, not program state: the "at" stamp of a sink or  *)
(* text entry is the count of serial bytes read when it was produced; the  *)
(* "of" stamp of an output entry is the index of the source event being    *)
(* handled; echo_pos records where the peer's echo of a write starts.      *)
(***************************************************************************)
EXTENDS Integers, Sequences, FiniteSets, TLC

\* ------------------------------------------------------------------------
\* Program constants (ttymidi-sysex.c:95-96, 457)

MAX_MSG_SIZE == 1024

BUF_SIZE == 1024

SYSEX_DATA_SIZE == 256

\* ------------------------------------------------------------------------
\* Bounds of the model

\* chunks of serial traffic concatenated into one input script
MaxChunks == 2

\* source events in one script of the source -> serial direction
MaxEvents == 3

\* source events in one script of the round trip through the serial peer
MaxLoopEvents == 2

\* source events in one script of the shutdown
MaxLiveEvents == 2

VARIABLES
    run,          \* int run: the shutdown flag
    printonly,    \* arguments.printonly
    \* ---- serial -> sink worker (read_midi_from_serial_port)
    rpc,          \* where the worker is: "ff", "top", "print", "read", "text_len", "text_body", "stopped"
    buf,          \* unsigned char buf[BUF_SIZE]
    i,            \* int i
    bytesleft,    \* int bytesleft
    msglen,       \* int msglen
    msg,          \* unsigned char msg[MAX_MSG_SIZE]: the bytes stored so far, from index 0
    serial_in,    \* every byte the serial peer sends, in order
    rpos,         \* how many of them the worker has read
    sink,         \* calls of snd_seq_event_output_direct: <<[at, ev]>>
    texts,        \* text comments recognised: <<[at, len, got, text]>>
    \* ---- source -> serial worker (read_midi_from_alsa)
    wpc,          \* "top", "poll", "input", "stopped", "killed"
    bytes,        \* unsigned char bytes[3]
    sysex_data,   \* unsigned char sysex_data[256]: the bytes stored so far, from index 0
    sysex_len,    \* int sysex_len
    source,       \* the events the ALSA clients will send, in order
    posted,       \* how many of them have been sent
    alsa_fifo,    \* events queued in the sequencer for this client
    alsa_buf,     \* events already fetched into the library's input buffer
    taken,        \* how many events snd_seq_event_input has returned
    out,          \* operations on the serial fd: <<[op, bytes, of]>>
    echoed,       \* how many entries of out the peer has echoed back
    echo_pos,     \* echo_pos[k]: length of serial_in before the k-th echo
    \* ---- main
    mpc,          \* where main is: "wait", "join", "restore", "return", "done"
    tty,          \* the settings of the serial port: "newtio" or "oldtio"
    \* ---- history of the shutdown
    late_polls,   \* calls of poll() that returned after run was cleared
    stop_taken    \* the value of taken when run was cleared

rvars == <<rpc, buf, i, bytesleft, msglen, msg, rpos, sink, texts>>
wvars == <<wpc, bytes, sysex_data, sysex_len, alsa_fifo, alsa_buf, taken, out, late_polls>>
mvars == <<mpc, tty, stop_taken>>
vars == <<run, printonly, rvars, serial_in, wvars, source, posted, echoed, echo_pos, mvars>>

\* ------------------------------------------------------------------------
\* Byte arithmetic

\* b & 0xF0
HiNibble(b) == (b \div 16) * 16

\* b & 0x0F
LoNibble(b) == b % 16

\* b & 0x7F
Low7(b) == b % 128

\* b >> 7 != 0
IsStatus(b) == b \div 128 # 0

Min(a, b) == IF a < b THEN a ELSE b

Fill(n, b) == [k \in 1..n |-> b]

\* ------------------------------------------------------------------------
\* ALSA events

Ev(t, ch, p, v, x) == [type |-> t, channel |-> ch, param |-> p, value |-> v, ext |-> x]

\* snd_seq_ev_clear: all zero, type 0 (SND_SEQ_EVENT_SYSTEM)
ClearedEv == Ev("NONE", 0, 0, 0, <<>>)

\* buf[0..n-1] as a sequence
BufPrefix(b, n) == [k \in 1..n |-> b[k - 1]]

\* ------------------------------------------------------------------------
\* parse_midi_command: the event handed to snd_seq_event_output_direct

\* case 0xF0 of the switch: the system messages
ParseSystem(b, buflen) ==
    LET channel == LoNibble(b[0])
        param1  == b[1]
        param2  == b[2]
    IN  CASE channel = 0  -> Ev("SYSEX", 0, 0, 0, BufPrefix(b, buflen))
          [] channel = 1  -> Ev("QFRAME", 0, 0, param1, <<>>)
          [] channel = 2  -> Ev("SONGPOS", 0, 0, Low7(param1) + Low7(param2) * 128, <<>>)
          [] channel = 3  -> Ev("SONGSEL", 0, 0, param1, <<>>)
          [] channel = 6  -> Ev("TUNE_REQUEST", 0, 0, 0, <<>>)
          [] channel = 8  -> Ev("CLOCK", 0, 0, 0, <<>>)
          [] channel = 10 -> Ev("START", 0, 0, 0, <<>>)
          [] channel = 11 -> Ev("CONTINUE", 0, 0, 0, <<>>)
          [] channel = 12 -> Ev("STOP", 0, 0, 0, <<>>)
          [] channel = 14 -> Ev("SENSING", 0, 0, 0, <<>>)
          [] OTHER        -> ClearedEv

\* the mutant of ParseMidiCommand takes the data bytes in the wrong order
ParseMidiCommandSwapped(b, buflen) ==
    LET operation == HiNibble(b[0])
        channel   == LoNibble(b[0])
        param1    == b[2]
        param2    == b[1]
    IN  CASE operation = 144 -> Ev("NOTEON", channel, param1, param2, <<>>)
          [] operation = 128 -> Ev("NOTEOFF", channel, param1, param2, <<>>)
          [] operation = 160 -> Ev("KEYPRESS", channel, param1, param2, <<>>)
          [] operation = 176 -> Ev("CONTROLLER", channel, param1, param2, <<>>)
          [] operation = 192 -> Ev("PGMCHANGE", channel, 0, param1, <<>>)
          [] operation = 208 -> Ev("CHANPRESS", channel, 0, param1, <<>>)
          [] operation = 224 ->
                Ev("PITCHBEND", channel, 0, Low7(param1) + Low7(param2) * 128 - 8192, <<>>)
          [] operation = 240 -> ParseSystem(b, buflen)
          [] OTHER           -> ClearedEv

ParseMidiCommand(b, buflen) ==
    LET operation == HiNibble(b[0])
        channel   == LoNibble(b[0])
        param1    == b[1]
        param2    == b[2]
    IN  CASE operation = 144 -> Ev("NOTEON", channel, param1, param2, <<>>)
          [] operation = 128 -> Ev("NOTEOFF", channel, param1, param2, <<>>)
          [] operation = 160 -> Ev("KEYPRESS", channel, param1, param2, <<>>)
          [] operation = 176 -> Ev("CONTROLLER", channel, param1, param2, <<>>)
          [] operation = 192 -> Ev("PGMCHANGE", channel, 0, param1, <<>>)
          [] operation = 208 -> Ev("CHANPRESS", channel, 0, param1, <<>>)
          [] operation = 224 ->
                Ev("PITCHBEND", channel, 0, Low7(param1) + Low7(param2) * 128 - 8192, <<>>)
          [] operation = 240 -> ParseSystem(b, buflen)
          [] OTHER           -> ClearedEv

\* ------------------------------------------------------------------------
\* The framing loop of read_midi_from_serial_port

\* the value bytesleft takes when status byte s restarts the frame
BytesLeftFor(s, old) ==
    IF s = 241 \/ s = 243 \/ s = 245 THEN 1
    ELSE IF s >= 244 THEN 0
    ELSE IF s # 240 THEN 3
    ELSE old

\* one pass of the body of while (i < bytesleft), given the byte read
FrameByte(b0, i0, left0, byte) ==
    LET b1 == [b0 EXCEPT ![i0] = byte]
    IN  IF IsStatus(byte)
        THEN IF byte = 247 /\ b1[0] = 240
             THEN [buf |-> b1, i |-> i0 + 1, bytesleft |-> left0, brk |-> TRUE]
             ELSE [buf |-> [b1 EXCEPT ![0] = byte], i |-> 1,
                   bytesleft |-> BytesLeftFor(byte, left0), brk |-> FALSE]
        ELSE IF b1[0] = 240
             THEN [buf |-> b1, i |-> i0 + 1, bytesleft |-> left0, brk |-> FALSE]
             ELSE IF i0 = 2
                  THEN [buf |-> b1, i |-> 3, bytesleft |-> left0, brk |-> FALSE]
                  ELSE IF HiNibble(b1[0]) = 192 \/ HiNibble(b1[0]) = 208
                       THEN [buf |-> b1, i |-> 3, bytesleft |-> left0, brk |-> FALSE]
                       ELSE [buf |-> b1, i |-> 2, bytesleft |-> left0, brk |-> FALSE]

\* the test that opens the text comment branch
IsTextMarker(b) == b[0] = 255 /\ b[1] = 0 /\ b[2] = 0

\* the process exists: main has not returned and nothing has killed it
Alive == mpc # "done" /\ wpc # "killed"

HasByte == rpos < Len(serial_in)

NextByte == serial_in[rpos + 1]

\* the fast forward to the first status byte
RdFastForward ==
    /\ rpc = "ff"
    /\ Alive
    /\ HasByte
    /\ buf' = [buf EXCEPT ![0] = NextByte]
    /\ rpos' = rpos + 1
    /\ rpc' = IF IsStatus(NextByte) THEN "top" ELSE "ff"
    /\ UNCHANGED <<run, printonly, i, bytesleft, msglen, msg, sink, texts, serial_in,
                   wvars, source, posted, echoed, echo_pos, mvars>>

\* a mutant of RdLoopTop: the frame may fill the buffer and go past its end
RdLoopTopWide ==
    /\ rpc = "top"
    /\ Alive
    /\ IF ~run
       THEN rpc' = "stopped" /\ UNCHANGED <<i, bytesleft>>
       ELSE IF printonly
            THEN rpc' = "print" /\ UNCHANGED <<i, bytesleft>>
            ELSE /\ i' = 1
                 /\ bytesleft' = BUF_SIZE + 1
                 /\ rpc' = "read"
    /\ UNCHANGED <<run, printonly, buf, msglen, msg, rpos, sink, texts, serial_in,
                   wvars, source, posted, echoed, echo_pos, mvars>>

\* while (run): leave, or enter the print-only read, or start a frame
RdLoopTop ==
    /\ rpc = "top"
    /\ Alive
    /\ IF ~run
       THEN rpc' = "stopped" /\ UNCHANGED <<i, bytesleft>>
       ELSE IF printonly
            THEN rpc' = "print" /\ UNCHANGED <<i, bytesleft>>
            ELSE /\ i' = 1
                 /\ bytesleft' = BUF_SIZE - 1
                 /\ rpc' = IF 1 < BUF_SIZE - 1 THEN "read" ELSE "top"
    /\ UNCHANGED <<run, printonly, buf, msglen, msg, rpos, sink, texts, serial_in,
                   wvars, source, posted, echoed, echo_pos, mvars>>

\* super-debug mode: one byte read and printed
RdPrintOnly ==
    /\ rpc = "print"
    /\ Alive
    /\ HasByte
    /\ buf' = [buf EXCEPT ![0] = NextByte]
    /\ rpos' = rpos + 1
    /\ rpc' = "top"
    /\ UNCHANGED <<run, printonly, i, bytesleft, msglen, msg, sink, texts, serial_in,
                   wvars, source, posted, echoed, echo_pos, mvars>>

\* a mutant of RdFrameByte: the text comment branch is not an else branch, so
\* the frame that opens a text comment is handed to parse_midi_command as well
RdFrameByteTextToSink ==
    /\ rpc = "read"
    /\ Alive
    /\ HasByte
    /\ LET r == FrameByte(buf, i, bytesleft, NextByte)
       IN  /\ buf' = r.buf
           /\ i' = r.i
           /\ bytesleft' = r.bytesleft
           /\ rpos' = rpos + 1
           /\ IF ~r.brk /\ r.i < r.bytesleft
              THEN rpc' = "read" /\ UNCHANGED sink
              ELSE /\ rpc' = IF IsTextMarker(r.buf) THEN "text_len" ELSE "top"
                   /\ sink' = Append(sink, [at |-> rpos + 1,
                                            ev |-> ParseMidiCommand(r.buf, r.i)])
    /\ UNCHANGED <<run, printonly, msglen, msg, texts, serial_in,
                   wvars, source, posted, echoed, echo_pos, mvars>>

\* a mutant of RdFrameByte: parse_midi_command returns from its default cases
\* without calling snd_seq_event_output_direct
RdFrameByteSkipUnknown ==
    /\ rpc = "read"
    /\ Alive
    /\ HasByte
    /\ LET r == FrameByte(buf, i, bytesleft, NextByte)
       IN  /\ buf' = r.buf
           /\ i' = r.i
           /\ bytesleft' = r.bytesleft
           /\ rpos' = rpos + 1
           /\ IF ~r.brk /\ r.i < r.bytesleft
              THEN rpc' = "read" /\ UNCHANGED sink
              ELSE IF IsTextMarker(r.buf)
                   THEN rpc' = "text_len" /\ UNCHANGED sink
                   ELSE /\ rpc' = "top"
                        /\ sink' = IF ParseMidiCommand(r.buf, r.i) = ClearedEv
                                   THEN sink
                                   ELSE Append(sink, [at |-> rpos + 1,
                                                      ev |-> ParseMidiCommand(r.buf, r.i)])
    /\ UNCHANGED <<run, printonly, msglen, msg, texts, serial_in,
                   wvars, source, posted, echoed, echo_pos, mvars>>

\* one byte of the framing loop; when the loop ends, the frame is dispatched
RdFrameByte ==
    /\ rpc = "read"
    /\ Alive
    /\ HasByte
    /\ LET r == FrameByte(buf, i, bytesleft, NextByte)
       IN  /\ buf' = r.buf
           /\ i' = r.i
           /\ bytesleft' = r.bytesleft
           /\ rpos' = rpos + 1
           /\ IF ~r.brk /\ r.i < r.bytesleft
              THEN rpc' = "read" /\ UNCHANGED sink
              ELSE IF IsTextMarker(r.buf)
                   THEN rpc' = "text_len" /\ UNCHANGED sink
                   ELSE /\ rpc' = "top"
                        /\ sink' = Append(sink, [at |-> rpos + 1,
                                                 ev |-> ParseMidiCommand(r.buf, r.i)])
    /\ UNCHANGED <<run, printonly, msglen, msg, texts, serial_in,
                   wvars, source, posted, echoed, echo_pos, mvars>>

\* the length byte of a text comment
RdTextLen ==
    /\ rpc = "text_len"
    /\ Alive
    /\ HasByte
    /\ buf' = [buf EXCEPT ![0] = NextByte]
    /\ msglen' = IF NextByte > MAX_MSG_SIZE - 1 THEN MAX_MSG_SIZE - 1 ELSE NextByte
    /\ rpos' = rpos + 1
    /\ rpc' = "text_body"
    /\ UNCHANGED <<run, printonly, i, bytesleft, msg, sink, texts, serial_in,
                   wvars, source, posted, echoed, echo_pos, mvars>>

\* read(serial, msg, msglen): one call, which returns with the k >= 1 bytes
\* the line has delivered so far (none asked, none read), then the print
RdTextBody ==
    /\ rpc = "text_body"
    /\ Alive
    /\ IF msglen = 0
       THEN /\ texts' = Append(texts, [at |-> rpos, len |-> 0, got |-> 0, text |-> <<>>])
            /\ UNCHANGED <<msg, rpos>>
       ELSE /\ HasByte
            /\ \E k \in 1..Min(msglen, Len(serial_in) - rpos) :
                  LET m1 == SubSeq(serial_in, rpos + 1, rpos + k) \o
                            SubSeq(msg, k + 1, Len(msg))
                  IN  /\ msg' = m1
                      /\ rpos' = rpos + k
                      /\ texts' = Append(texts,
                             [at |-> rpos + k, len |-> msglen, got |-> k,
                              text |-> SubSeq(m1, 1, Min(msglen, Len(m1)))])
    /\ rpc' = "top"
    /\ UNCHANGED <<run, printonly, buf, i, bytesleft, msglen, sink, serial_in,
                   wvars, source, posted, echoed, echo_pos, mvars>>

Reader == RdFastForward \/ RdLoopTop \/ RdPrintOnly \/ RdFrameByte \/ RdTextLen \/ RdTextBody

\* ------------------------------------------------------------------------
\* write_midi_action_to_serial_port

\* bytes[] is a sequence of 3: bytes[1] is the C bytes[0]
SetBytes2(b, b0, b1) == [b EXCEPT ![1] = b0 % 256, ![2] = b1 % 256]

SetBytes3(b, b0, b1, b2) == [b EXCEPT ![1] = b0 % 256, ![2] = b1 % 256, ![3] = b2 % 256]

\* the switch on ev->type, for the events that use bytes[]
StageBytes(b, ev) ==
    CASE ev.type = "NOTEOFF"    -> SetBytes3(b, 128 + ev.channel, ev.param, ev.value)
      [] ev.type = "NOTEON"     -> SetBytes3(b, 144 + ev.channel, ev.param, ev.value)
      [] ev.type = "KEYPRESS"   -> SetBytes3(b, 160 + ev.channel, ev.param, ev.value)
      [] ev.type = "CONTROLLER" -> SetBytes3(b, 176 + ev.channel, ev.param, ev.value)
      [] ev.type = "PGMCHANGE"  -> SetBytes2(b, 192 + ev.channel, ev.value)
      [] ev.type = "CHANPRESS"  -> SetBytes2(b, 208 + ev.channel, ev.value)
      [] ev.type = "PITCHBEND"  ->
            SetBytes3(b, 224 + ev.channel, Low7(ev.value + 8192), (ev.value + 8192) \div 128)
      [] ev.type = "QFRAME"     -> SetBytes2(b, 241, ev.value)
      [] ev.type = "SONGPOS"    ->
            SetBytes3(b, 242, Low7(ev.value + 8192), (ev.value + 8192) \div 128)
      [] ev.type = "SONGSEL"    -> SetBytes2(b, 243, ev.value)
      [] ev.type = "TUNE_REQUEST" -> [b EXCEPT ![1] = 246]
      [] ev.type = "CLOCK"      -> [b EXCEPT ![1] = 248]
      [] ev.type = "START"      -> [b EXCEPT ![1] = 250]
      [] ev.type = "CONTINUE"   -> [b EXCEPT ![1] = 251]
      [] ev.type = "STOP"       -> [b EXCEPT ![1] = 252]
      [] ev.type = "SENSING"    -> [b EXCEPT ![1] = 254]
      [] OTHER                  -> b

\* case SND_SEQ_EVENT_SYSEX: the copy into sysex_data, cut at the array's end
StageSysex(sd, ev) ==
    IF ev.type = "SYSEX"
    THEN SubSeq(ev.ext \o SubSeq(sd, Len(ev.ext) + 1, Len(sd)), 1,
                Min(SYSEX_DATA_SIZE, Len(ev.ext \o SubSeq(sd, Len(ev.ext) + 1, Len(sd)))))
    ELSE sd

StageSysexLen(len, ev) == IF ev.type = "SYSEX" THEN Len(ev.ext) ELSE len

\* the non-sysex branch of the write: bytes[] after the masks, and the count written
WriteCount(b) ==
    IF b[1] = 0 THEN 0
    ELSE IF b[3] = 255 \/ b[1] = 241 \/ b[1] = 243 \/ b[1] = 245 THEN 2
    ELSE IF b[1] = 244 \/ b[1] = 246 \/ b[1] >= 248 THEN 1
    ELSE 3

MaskBytes(b) ==
    IF b[1] = 0 THEN b
    ELSE IF WriteCount(b) = 3 THEN [b EXCEPT ![2] = Low7(b[2]), ![3] = Low7(b[3])]
    ELSE [b EXCEPT ![2] = Low7(b[2])]

\* the calls on the serial fd one pass of the do-while makes, given the locals
\* after the switch; sd_read is what write() finds at sysex_data[0..len-1]
SerialOps(b, sd_read, len, n) ==
    IF len > 0
    THEN << [op |-> "write", bytes |-> sd_read, of |-> n],
            [op |-> "tcdrain", bytes |-> <<>>, of |-> n] >>
    ELSE IF WriteCount(b) > 0
         THEN << [op |-> "write", bytes |-> SubSeq(MaskBytes(b), 1, WriteCount(b)), of |-> n] >>
         ELSE << >>

\* while (run) of read_midi_from_alsa: leave, or call poll
WrLoopTop ==
    /\ wpc = "top"
    /\ Alive
    /\ wpc' = IF run THEN "poll" ELSE "stopped"
    /\ UNCHANGED <<run, printonly, rvars, serial_in, bytes, sysex_data, sysex_len, alsa_fifo,
                   alsa_buf, taken, out, late_polls, source, posted, echoed, echo_pos, mvars>>

\* poll(pfd, npfd, 100) returns: with an event queued, enter
\* write_midi_action_to_serial_port with its locals initialised; after the
\* 100 ms with none, back to the test of run (while run is set that test
\* leads to the same poll again, nothing changed: only the return after run
\* was cleared is a step)
WrPoll ==
    /\ wpc = "poll"
    /\ Alive
    /\ ~run \/ alsa_fifo # <<>>
    /\ late_polls' = IF run THEN late_polls ELSE late_polls + 1
    /\ IF alsa_fifo # <<>>
       THEN /\ wpc' = "input"
            /\ bytes' = <<0, 0, 255>>
            /\ sysex_len' = 0
       ELSE wpc' = "top" /\ UNCHANGED <<bytes, sysex_len>>
    /\ UNCHANGED <<run, printonly, rvars, serial_in, sysex_data, alsa_fifo, alsa_buf,
                   taken, out, source, posted, echoed, echo_pos, mvars>>

\* one pass of the do-while: snd_seq_event_input (which fetches what the
\* sequencer holds when the library's buffer is empty), the switch, the write,
\* and the test snd_seq_event_input_pending(seq_handle, 0) > 0.
\* A sysex longer than sysex_data is stored past the array's end: undefined
\* behaviour, here one of: the bytes read back intact, the bytes past the end
\* read back as something else, or the process killed.
WrInput ==
    /\ wpc = "input"
    /\ Alive
    /\ alsa_buf # <<>> \/ alsa_fifo # <<>>
    /\ LET pend == IF alsa_buf = <<>> THEN alsa_fifo ELSE alsa_buf
           ev   == Head(pend)
           b1   == StageBytes(bytes, ev)
           sd1  == StageSysex(sysex_data, ev)
           len1 == StageSysexLen(sysex_len, ev)
           n    == taken + 1
           next == IF Tail(pend) # <<>> THEN "input" ELSE "top"
       IN  /\ alsa_buf' = Tail(pend)
           /\ alsa_fifo' = IF alsa_buf = <<>> THEN <<>> ELSE alsa_fifo
           /\ taken' = n
           /\ sysex_data' = sd1
           /\ sysex_len' = len1
           /\ bytes' = IF len1 > 0 THEN b1 ELSE MaskBytes(b1)
           /\ IF len1 <= SYSEX_DATA_SIZE
              THEN /\ out' = out \o SerialOps(b1, SubSeq(sd1, 1, Min(len1, Len(sd1))), len1, n)
                   /\ wpc' = next
              ELSE \E outcome \in {"intact", "garbled", "killed"} :
                     CASE outcome = "intact" ->
                            /\ out' = out \o SerialOps(b1, ev.ext, len1, n)
                            /\ wpc' = next
                       [] outcome = "garbled" ->
                            /\ out' = out \o SerialOps(b1,
                                         sd1 \o Fill(len1 - SYSEX_DATA_SIZE, 0), len1, n)
                            /\ wpc' = next
                       [] OTHER ->
                            /\ out' = out
                            /\ wpc' = "killed"
    /\ UNCHANGED <<run, printonly, rvars, serial_in, late_polls, source, posted, echoed,
                   echo_pos, mvars>>

Writer == WrLoopTop \/ WrPoll \/ WrInput

\* ------------------------------------------------------------------------
\* The environment

\* an ALSA client sends the next event of the source script to the in port
SourcePost ==
    /\ posted < Len(source)
    /\ posted' = posted + 1
    /\ alsa_fifo' = Append(alsa_fifo, source[posted + 1])
    /\ UNCHANGED <<run, printonly, rvars, serial_in, wpc, bytes, sysex_data, sysex_len,
                   alsa_buf, taken, out, late_polls, source, echoed, echo_pos, mvars>>

\* the serial peer sends back the bytes of the next write it has received
PeerEcho ==
    /\ echoed < Len(out)
    /\ echoed' = echoed + 1
    /\ echo_pos' = Append(echo_pos, Len(serial_in))
    /\ serial_in' = serial_in \o out[echoed + 1].bytes
    /\ UNCHANGED <<run, printonly, rvars, wvars, source, posted, mvars>>

\* exit_cli: SIGINT or SIGTERM
Signal ==
    /\ run
    /\ Alive
    /\ run' = FALSE
    /\ stop_taken' = taken
    /\ UNCHANGED <<printonly, rvars, serial_in, wvars, source, posted, echoed, echo_pos,
                   mpc, tty>>

\* ------------------------------------------------------------------------
\* main, from the two pthread_create on

\* while (run) sleep(100): left once run is cleared
MainWait ==
    /\ mpc = "wait"
    /\ Alive
    /\ ~run
    /\ mpc' = "join"
    /\ UNCHANGED <<run, printonly, rvars, serial_in, wvars, source, posted, echoed, echo_pos,
                   tty, stop_taken>>

\* a mutant of MainJoin: main joins midi_in_thread instead
MainJoinSerialThread ==
    /\ mpc = "join"
    /\ Alive
    /\ rpc = "stopped"
    /\ mpc' = "restore"
    /\ UNCHANGED <<run, printonly, rvars, serial_in, wvars, source, posted, echoed, echo_pos,
                   tty, stop_taken>>

\* pthread_join(midi_out_thread): returns when read_midi_from_alsa has returned
MainJoin ==
    /\ mpc = "join"
    /\ Alive
    /\ wpc = "stopped"
    /\ mpc' = "restore"
    /\ UNCHANGED <<run, printonly, rvars, serial_in, wvars, source, posted, echoed, echo_pos,
                   tty, stop_taken>>

\* tcsetattr(serial, TCSANOW, &oldtio)
MainRestore ==
    /\ mpc = "restore"
    /\ Alive
    /\ tty' = "oldtio"
    /\ mpc' = "return"
    /\ UNCHANGED <<run, printonly, rvars, serial_in, wvars, source, posted, echoed, echo_pos,
                   stop_taken>>

\* main returns: the process ends, and with it any thread still running
MainReturn ==
    /\ mpc = "return"
    /\ Alive
    /\ mpc' = "done"
    /\ UNCHANGED <<run, printonly, rvars, serial_in, wvars, source, posted, echoed, echo_pos,
                   tty, stop_taken>>

Main == MainWait \/ MainJoin \/ MainRestore \/ MainReturn

\* ------------------------------------------------------------------------
\* Inputs of the model

\* what an uninitialised buf[] may hold
Garbage == {0, 85}

\* sequences of at most n elements of S
RECURSIVE SeqsUpTo(_, _)
SeqsUpTo(S, n) ==
    IF n = 0 THEN { <<>> }
    ELSE LET shorter == SeqsUpTo(S, n - 1)
         IN  shorter \cup { Append(q, x) : q \in shorter, x \in S }

RECURSIVE Flatten(_)
Flatten(qs) == IF qs = <<>> THEN <<>> ELSE Head(qs) \o Flatten(Tail(qs))

\* 'h' 'e' 'l' 'l' 'o'
Hello == <<104, 101, 108, 108, 111>>

\* FF 00 00 05 'h' 'e' 'l' 'l' 'o'
HelloComment == <<255, 0, 0, 5>> \o Hello

\* pieces of serial traffic: whole messages, stray data, a lone F7, an unfinished note on
InChunks ==
    { <<144, 64, 127>>, <<248>>, <<144, 248, 64, 127>>, <<241, 5>>, <<193, 5>>,
      <<240, 1, 2, 3, 247>>, <<224, 0, 0>>, <<242, 1, 2>>, <<64>>, <<247>>, <<144>>,
      <<255, 0, 0, 2, 104, 105>>, <<0, 0, 255, 2, 104, 105>>, <<255>> }

\* traffic from a fresh start that ends with a frame just dispatched
Prefixes ==
    { <<248, 248>>, <<240, 1, 247>>, <<144, 144, 0, 0>>, <<248, 255>>,
      <<224, 0, 0, 255, 2, 104, 105>> }

\* well-formed messages of the wire protocol, each with the event it stands for
WellFormed ==
    { [bytes |-> <<144, 64, 127>>,       ev |-> Ev("NOTEON", 0, 64, 127, <<>>)],
      [bytes |-> <<193, 5>>,             ev |-> Ev("PGMCHANGE", 1, 0, 5, <<>>)],
      [bytes |-> <<224, 0, 0>>,          ev |-> Ev("PITCHBEND", 0, 0, -8192, <<>>)],
      [bytes |-> <<241, 5>>,             ev |-> Ev("QFRAME", 0, 0, 5, <<>>)],
      [bytes |-> <<242, 1, 2>>,          ev |-> Ev("SONGPOS", 0, 0, 257, <<>>)],
      [bytes |-> <<248>>,                ev |-> Ev("CLOCK", 0, 0, 0, <<>>)],
      [bytes |-> <<240, 1, 2, 3, 247>>,  ev |-> Ev("SYSEX", 0, 0, 0, <<240, 1, 2, 3, 247>>)] }

\* input scripts of the serial -> sink direction
ChunkScripts == { Flatten(q) : q \in SeqsUpTo(InChunks, MaxChunks) }

ResyncScripts ==
    { p \o <<144, 248, 64, 127>> \o m.bytes : p \in Prefixes, m \in WellFormed }

OverflowScripts ==
    { p \o <<240>> \o Fill(BUF_SIZE - 2 + x, 1) \o m.bytes :
        p \in { <<>>, <<248, 248>> }, x \in {0, 2}, m \in WellFormed }

TextScripts == { p \o HelloComment \o m.bytes : p \in Prefixes, m \in WellFormed }

\* the start of a message, left unfinished
Abandoned == { <<144>>, <<144, 64>>, <<240, 1>>, <<242, 1>> }

\* the well-formed messages that are delivered intact at a frame boundary
Restartable == { m \in WellFormed : m.ev.type # "QFRAME" }

AbandonScripts ==
    { p \o a \o m.bytes : p \in Prefixes, a \in Abandoned, m \in Restartable }

\* status bytes with no message of the wire protocol
Unrecognised == {244, 245, 247, 249, 253, 255}

\* bytes that may follow a completed frame before the next status byte
Stray == { <<>>, <<64>> }

\* after a completed frame: a quarter frame or a song select, an unrecognised
\* status byte (at once, or after the status byte of a note on), stray data
\* and a lone F7, a text comment the framer recognises; then a clock
BoundaryScripts ==
    { p \o x \o <<248>> :
        p \in Prefixes,
        x \in { <<s, d>> : s \in {241, 243}, d \in {5, 7} } \cup
              { <<u>> : u \in Unrecognised } \cup
              { <<144, u>> : u \in Unrecognised } \cup
              { d \o <<247>> : d \in Stray } \cup
              { <<0, 0, 255, 2, 104, 105>> } }

InScripts ==
    ChunkScripts \cup ResyncScripts \cup OverflowScripts \cup TextScripts \cup
    AbandonScripts \cup BoundaryScripts

\* ------------------------------------------------------------------------
\* Initial states

ReaderInit(script, po) ==
    /\ printonly = po
    /\ rpc = IF po THEN "top" ELSE "ff"
    /\ \E g \in Garbage : buf = [k \in 0..(BUF_SIZE - 1) |-> g]
    /\ i = 0
    /\ bytesleft = 0
    /\ msglen = 0
    /\ msg = <<>>
    /\ serial_in = script
    /\ rpos = 0
    /\ sink = <<>>
    /\ texts = <<>>
    /\ echoed = 0
    /\ echo_pos = <<>>

WriterInit(events) ==
    /\ wpc = "top"
    /\ bytes = <<0, 0, 255>>
    /\ sysex_data = <<>>
    /\ sysex_len = 0
    /\ source = events
    /\ posted = 0
    /\ alsa_fifo = <<>>
    /\ alsa_buf = <<>>
    /\ taken = 0
    /\ out = <<>>
    /\ late_polls = 0

\* main after it has created the two threads and installed exit_cli
MainInit ==
    /\ mpc = "wait"
    /\ tty = "newtio"
    /\ stop_taken = 0

\* the serial -> sink direction alone, no signal
InitIn ==
    /\ run = TRUE
    /\ \/ \E s \in InScripts : ReaderInit(s, FALSE)
       \/ \E s \in SeqsUpTo({64, 248}, 2) : ReaderInit(s, TRUE)
    /\ WriterInit(<<>>)
    /\ MainInit

NextIn == Reader

SpecIn == InitIn /\ [][NextIn]_vars

\* ------------------------------------------------------------------------
\* Observations used by the properties

\* the byte counts at which a frame had just been dispatched
Boundaries ==
    { sink[k].at : k \in 1..Len(sink) } \cup { texts[k].at : k \in 1..Len(texts) }

\* the events the sink received while bytes a+1..b were read
EventsIn(a, b) ==
    LET s == SelectSeq(sink, LAMBDA e : e.at > a /\ e.at <= b)
    IN  [k \in 1..Len(s) |-> s[k].ev]

\* the text comments completed while bytes a+1..b were read
TextsIn(a, b) == SelectSeq(texts, LAMBDA t : t.at > a /\ t.at <= b)

\* serial_in holds q at positions a+1..a+Len(q)
HoldsAt(a, q) ==
    /\ Len(serial_in) >= a + Len(q)
    /\ \A k \in 1..Len(q) : serial_in[a + k] = q[k]

\* ------------------------------------------------------------------------
\* Properties of the serial -> sink direction (checked under SpecIn)

\* C1: from a fresh start, once exactly the three bytes 90 40 7F have been
\* read, the sink has received exactly one event: NoteOn, channel 0, note 64,
\* velocity 127.
C1_NoteOnAtThirdByte ==
    (~printonly /\ rpos = 3 /\ HoldsAt(0, <<144, 64, 127>>))
        => EventsIn(0, 3) = << Ev("NOTEON", 0, 64, 127, <<>>) >>

\* C2: when 90 F8 40 7F arrive at a frame boundary, followed by a well-formed
\* message M, the sink receives for these bytes exactly a Clock event and
\* then M's event, unchanged.
C2_ClockThenMessage ==
    \A n \in Boundaries : \A m \in WellFormed :
        (/\ ~printonly
         /\ rpos >= n + 4 + Len(m.bytes)
         /\ HoldsAt(n, <<144, 248, 64, 127>> \o m.bytes))
            => EventsIn(n, n + 4 + Len(m.bytes)) = << Ev("CLOCK", 0, 0, 0, <<>>), m.ev >>

\* C3: when an F0 at a frame boundary (or at the fresh start) is followed by
\* data bytes up to the buffer limit, with no F7, and then by a well-formed
\* message M, the sink receives nothing for the oversized sysex and receives
\* M's event intact.
C3_OversizedSysexDropped ==
    \A n \in Boundaries \cup {0} : \A x \in {0, 2} : \A m \in WellFormed :
        (/\ ~printonly
         /\ rpos = Len(serial_in)
         /\ Len(serial_in) = n + 1 + (BUF_SIZE - 2 + x) + Len(m.bytes)
         /\ HoldsAt(n, <<240>>)
         /\ \A k \in (n + 2)..(n + 1 + BUF_SIZE - 2 + x) : serial_in[k] < 128
         /\ HoldsAt(n + 1 + BUF_SIZE - 2 + x, m.bytes))
            => EventsIn(n, Len(serial_in)) = << m.ev >>

\* C4: the nine bytes FF 00 00 05 'h' 'e' 'l' 'l' 'o' arriving at a frame
\* boundary are consumed by one text comment of length 5 whose text is
\* 'hello', and by nothing else.
C4_HelloComment ==
    \A n \in Boundaries :
        (~printonly /\ rpos >= n + 9 /\ HoldsAt(n, HelloComment))
            => /\ TextsIn(n, n + 9) =
                     << [at |-> n + 9, len |-> 5, got |-> 5, text |-> Hello] >>
               /\ EventsIn(n, n + 9) = << >>

\* C11: a frame recognised as a text comment makes no call to the sink: the
\* sink receives nothing at the byte that completes such a frame, nor while
\* its length byte and its text are read.
C11_TextNeverToSink ==
    /\ rpc = "text_len" => EventsIn(rpos - 1, rpos) = << >>
    /\ rpc = "text_body" => EventsIn(rpos - 2, rpos) = << >>
    /\ \A k \in 1..Len(texts) :
          EventsIn(texts[k].at - texts[k].got - 2, texts[k].at) = << >>

\* a text comment has been recognised and read whole, between a frame sent to
\* the sink before it and a frame sent to the sink after it
C11_Witness ==
    /\ rpc = "top"
    /\ \E k \in 1..Len(texts) :
          /\ texts[k].len = 2
          /\ texts[k].got = 2
          /\ \E a, b \in 1..Len(sink) :
                sink[a].at < texts[k].at - 3 /\ sink[b].at > texts[k].at

\* C13: after a status byte F1 or F3 at a frame boundary, the frame completes
\* only when one data byte d has been read, and the quarter frame or song
\* select event delivered carries that d.
C13_OneDataByte ==
    \A n \in Boundaries : \A s \in {241, 243} : \A d \in {5, 7} :
        (~printonly /\ rpos >= n + 2 /\ HoldsAt(n, <<s, d>>))
            => /\ EventsIn(n, n + 1) = << >>
               /\ EventsIn(n, n + 2) =
                     << Ev(IF s = 241 THEN "QFRAME" ELSE "SONGSEL", 0, 0, d, <<>>) >>

\* C14: when a message is left unfinished and a status byte arrives, nothing
\* is delivered for the unfinished message and the message the status byte
\* opens is delivered as it is at a frame boundary, a sysex up to its F7.
C14_AbandonAndRestart ==
    \A n \in Boundaries : \A a \in Abandoned : \A m \in Restartable :
        (/\ ~printonly
         /\ rpos >= n + Len(a) + Len(m.bytes)
         /\ HoldsAt(n, a \o m.bytes))
            => EventsIn(n, n + Len(a) + Len(m.bytes)) = << m.ev >>

\* C15: every SysEx event the sink receives is an F0, then data bytes in
\* 0..127 only, then a final F7.
C15_SysexWellFormed ==
    \A k \in 1..Len(sink) :
        sink[k].ev.type = "SYSEX"
            => LET x == sink[k].ev.ext
               IN  /\ Len(x) >= 2
                   /\ x[1] = 240
                   /\ x[Len(x)] = 247
                   /\ \A j \in 2..(Len(x) - 1) : x[j] < 128

\* C16: data bytes that follow a completed frame trigger nothing, and a lone
\* F7 after them is delivered as an unrecognised (empty) event, never as a
\* SysEx or any other recognised event.
C16_StrayBytesDiscarded ==
    \A n \in Boundaries : \A d \in Stray :
        (/\ ~printonly
         /\ rpos >= n + Len(d) + 1
         /\ HoldsAt(n, d \o <<247>>))
            => /\ EventsIn(n, n + Len(d)) = << >>
               /\ EventsIn(n, n + Len(d) + 1) = << ClearedEv >>

\* C19: the sink is called exactly once by every step that completes a frame
\* not recognised as a text comment, and by no other step; an unrecognised
\* status byte at a frame boundary completes a frame by itself, so the sink is
\* called once for it.
C19_SinkOncePerFrame ==
    /\ [][IF rpc = "read" /\ rpc' \notin {"read", "text_len"}
          THEN /\ Len(sink') = Len(sink) + 1
               /\ SubSeq(sink', 1, Len(sink)) = sink
               /\ sink'[Len(sink')].at = rpos'
          ELSE sink' = sink]_vars
    /\ [](\A n \in Boundaries : \A u \in Unrecognised :
            (~printonly /\ rpos >= n + 1 /\ HoldsAt(n, <<u>>))
                => Len(EventsIn(n, n + 1)) = 1)

\* an FD at a frame boundary has been delivered as an empty event, after a
\* clock and before another
C19_Witness ==
    /\ serial_in = <<248, 248, 253, 248>>
    /\ rpos = 4
    /\ Len(sink) = 3
    /\ sink[1].ev.type = "CLOCK"
    /\ sink[2] = [at |-> 3, ev |-> ClearedEv]
    /\ sink[3].ev.type = "CLOCK"

\* C21: whenever the framer is about to store a byte, the index i satisfies
\* 1 <= i <= BUF_SIZE-2; and every step that hands a frame to the decoder
\* hands it a length i with 1 <= i <= BUF_SIZE-1.
C21_IndexWithinBuffer ==
    /\ [](rpc = "read" => (1 <= i /\ i <= BUF_SIZE - 2))
    /\ [][Len(sink') > Len(sink) => (1 <= i' /\ i' <= BUF_SIZE - 1)]_vars

\* a sysex without F7 has filled the buffer up to the limit and has been
\* handed to the decoder with length BUF_SIZE-1
C21_Witness ==
    /\ rpc = "top"
    /\ i = BUF_SIZE - 1
    /\ \E k \in 1..Len(sink) :
          sink[k].ev.type = "SYSEX" /\ Len(sink[k].ev.ext) = BUF_SIZE - 1

\* ------------------------------------------------------------------------
\* The source -> serial direction alone, no signal

\* F0, n data bytes, F7
SysexBlock(n) == <<240>> \o [k \in 1..n |-> (k % 127) + 1] \o <<247>>

\* a sysex block of the given total length
SysexOfLen(total) == SysexBlock(total - 2)

Sysex(block) == Ev("SYSEX", 0, 0, 0, block)

RealtimeTypes == {"CLOCK", "START", "CONTINUE", "STOP", "SENSING", "TUNE_REQUEST"}

\* the status byte the wire protocol gives each of them
StatusByte(t) ==
    CASE t = "CLOCK" -> 248 [] t = "START" -> 250 [] t = "CONTINUE" -> 251
      [] t = "STOP" -> 252 [] t = "SENSING" -> 254 [] t = "TUNE_REQUEST" -> 246

\* events with no case in the switch of write_midi_action_to_serial_port
NoWireEv == Ev("PORT_SUBSCRIBED", 0, 0, 0, <<>>)

OutMsgs ==
    { Ev(t, 0, 0, 0, <<>>) : t \in RealtimeTypes } \cup
    { Ev("NOTEON", 0, 64, 127, <<>>), Ev("PGMCHANGE", 1, 0, 5, <<>>),
      Ev("PITCHBEND", 0, 0, 0, <<>>), Ev("QFRAME", 0, 0, 5, <<>>),
      Sysex(SysexBlock(1)), NoWireEv }

OutScripts ==
    SeqsUpTo(OutMsgs, MaxEvents) \cup
    { <<Sysex(SysexOfLen(SYSEX_DATA_SIZE + 1))>>,
      <<Sysex(SysexOfLen(SYSEX_DATA_SIZE + 1)), Ev("NOTEON", 0, 64, 127, <<>>)>> }

InitOut ==
    /\ run = TRUE
    /\ ReaderInit(<<>>, FALSE)
    /\ \E q \in OutScripts : WriterInit(q)
    /\ MainInit

NextOut == Writer \/ SourcePost

SpecOut == InitOut /\ [][NextOut]_vars

\* the bytes of the write() calls in a sequence of serial operations
RECURSIVE WireOf(_)
WireOf(ops) ==
    IF ops = <<>> THEN <<>>
    ELSE (IF Head(ops).op = "write" THEN Head(ops).bytes ELSE <<>>) \o WireOf(Tail(ops))

\* the bytes written while the n-th source event was handled
WritesOf(n) == WireOf(SelectSeq(out, LAMBDA o : o.of = n))

\* what one call of write_midi_action_to_serial_port writes for ev alone
EncodeAlone(ev) ==
    LET b1   == StageBytes(<<0, 0, 255>>, ev)
        sd1  == StageSysex(<<>>, ev)
        len1 == StageSysexLen(0, ev)
    IN  WireOf(SerialOps(b1, SubSeq(sd1, 1, Min(len1, Len(sd1))), len1, 1))

\* C9: for every Clock, Start, Continue, Stop, ActiveSensing and TuneRequest
\* pulled from the source, exactly one byte is written: its status byte.
C9_SingleStatusByte ==
    \A n \in 1..taken :
        source[n].type \in RealtimeTypes => WritesOf(n) = << StatusByte(source[n].type) >>

\* C10: the bytes written to serial are the in-order concatenation of one
\* encoding per message pulled from the source, in any batching (here for
\* scripts whose sysex events fit the staging buffer).
C10_InOrderConcatenation ==
    (/\ wpc # "killed"
     /\ \A k \in 1..Len(source) : Len(source[k].ext) <= SYSEX_DATA_SIZE)
        => WireOf(out) = Flatten([k \in 1..taken |-> EncodeAlone(source[k])])

\* C17: the bytes written for a message are those written when it is the
\* first of a drain batch, at every place in a batch; a program change or a
\* channel pressure is written as exactly 2 bytes; an event with no wire
\* representation writes nothing (here while every sysex taken so far fits
\* the staging buffer).
C17_DependsOnlyOnMessage ==
    \A n \in 1..taken :
        (\A k \in 1..n : Len(source[k].ext) <= SYSEX_DATA_SIZE)
            => /\ WritesOf(n) = EncodeAlone(source[n])
               /\ source[n].type \in {"PGMCHANGE", "CHANPRESS"} => Len(WritesOf(n)) = 2
               /\ source[n] = NoWireEv => WritesOf(n) = << >>

\* C18: every write to serial is followed by a tcdrain before the next write.
C18_FlushAfterEveryWrite ==
    \A k \in 1..(Len(out) - 1) :
        out[k].op = "write" => out[k + 1].op = "tcdrain"

\* C22: while every sysex event of the source is no longer than the maximum
\* frame size, the copy into sysex_data stores below index SYSEX_DATA_SIZE
\* only (the last index stored is sysex_len - 1), the copy does not end the
\* process, and no write to serial is longer than SYSEX_DATA_SIZE bytes.
C22_StagingWithinCapacity ==
    (\A k \in 1..Len(source) : Len(source[k].ext) <= BUF_SIZE)
        => /\ sysex_len <= SYSEX_DATA_SIZE
           /\ wpc # "killed"
           /\ \A k \in 1..Len(out) :
                 out[k].op = "write" => Len(out[k].bytes) <= SYSEX_DATA_SIZE

\* ------------------------------------------------------------------------
\* The round trip: the serial peer echoes what the bridge writes

ChannelKinds == {"NOTEOFF", "NOTEON", "KEYPRESS", "CONTROLLER", "PGMCHANGE", "CHANPRESS"}

Channels == {0, 1, 15}

DataVals == {0, 1, 64, 127}

BendVals == {-8192, -8191, -1, 0, 1, 8191}

SongPosVals == {0, 1, 127, 128, 8191, 8192, 16383}

\* total lengths of the sysex blocks tried
SysexLens == {2, 5, SYSEX_DATA_SIZE, SYSEX_DATA_SIZE + 1, BUF_SIZE}

ChannelMsgs ==
    { Ev(t, c, p, v, <<>>) :
        t \in {"NOTEOFF", "NOTEON", "KEYPRESS", "CONTROLLER"},
        c \in Channels, p \in DataVals, v \in DataVals } \cup
    { Ev(t, c, 0, v, <<>>) : t \in {"PGMCHANGE", "CHANPRESS"}, c \in Channels, v \in DataVals }

LoopMsgs ==
    ChannelMsgs \cup
    { Ev("PITCHBEND", c, 0, v, <<>>) : c \in Channels, v \in BendVals } \cup
    { Ev("SONGPOS", 0, 0, v, <<>>) : v \in SongPosVals } \cup
    { Sysex(SysexOfLen(n)) : n \in SysexLens }

\* events that share one drain batch when they are sent together
BatchMsgs ==
    { Ev("NOTEON", 0, 64, 127, <<>>), Ev("PITCHBEND", 0, 0, 0, <<>>), Sysex(SysexOfLen(3)) }

\* one message sent alone
LoopSingles == { <<m>> : m \in LoopMsgs }

\* several messages sent together
LoopBatches == { q \in SeqsUpTo(BatchMsgs, MaxLoopEvents) : Len(q) >= 2 }

\* a message alone after every prefix of serial traffic, a batch after one
InitLoop ==
    /\ run = TRUE
    /\ \/ /\ \E p \in Prefixes \cup { <<>> } : ReaderInit(p, FALSE)
          /\ \E q \in LoopSingles : WriterInit(q)
       \/ /\ ReaderInit(<<248, 248>>, FALSE)
          /\ \E q \in LoopBatches : WriterInit(q)
    /\ MainInit

NextLoop ==
    \/ RdFastForward \/ RdLoopTop \/ RdFrameByte \/ RdTextLen \/ RdTextBody
    \/ Writer
    \/ SourcePost
    \/ PeerEcho

SpecLoop == InitLoop /\ [][NextLoop]_vars

\* the k-th echo is of a write, starts at a frame boundary, and has been read
EchoRead(k) ==
    /\ out[k].op = "write"
    /\ echo_pos[k] \in Boundaries
    /\ rpos >= echo_pos[k] + Len(out[k].bytes)

\* the events the sink received for the bytes of the k-th echo
EchoEvents(k) == EventsIn(echo_pos[k], echo_pos[k] + Len(out[k].bytes))

\* C5: a sysex event whose block F0 p1..pn F7 is no longer than the maximum
\* frame size is written to serial byte for byte, and that block, read at a
\* frame boundary, is delivered to the sink as exactly one SysEx event carrying
\* exactly those bytes.
C5_SysexRoundTrip ==
    (/\ Len(source) = 1
     /\ source[1].type = "SYSEX"
     /\ Len(source[1].ext) <= BUF_SIZE
     /\ taken = 1)
        => /\ wpc # "killed"
           /\ WritesOf(1) = source[1].ext
           /\ \A k \in 1..Len(echo_pos) :
                 (EchoRead(k) /\ out[k].bytes = source[1].ext)
                     => EchoEvents(k) = << source[1] >>

\* the bytes the wire protocol gives a pitch bend
BendBytes(m) == << 224 + m.channel, (m.value + 8192) % 128, (m.value + 8192) \div 128 >>

\* C6: every pitch bend (channel c, value v) pulled from the source is written
\* as E0+c, (v+8192) mod 128, (v+8192) div 128, and these three bytes, read at
\* a frame boundary, are delivered as a pitch bend with the same c and v.
C6_PitchBendRoundTrip ==
    \A n \in 1..taken :
        source[n].type = "PITCHBEND"
            => /\ WritesOf(n) = BendBytes(source[n])
               /\ \A k \in 1..Len(echo_pos) :
                     (out[k].of = n /\ EchoRead(k)) => EchoEvents(k) = << source[n] >>

\* C7: the bytes written for a song position v, read at a frame boundary, are
\* delivered as a song position event with the same v (here for the message
\* sent alone).
C7_SongPosRoundTrip ==
    \A k \in 1..Len(echo_pos) :
        (/\ Len(source) = 1
         /\ source[1].type = "SONGPOS"
         /\ EchoRead(k))
            => EchoEvents(k) = << source[1] >>

\* C8: a NoteOff, NoteOn, PolyPressure, ControlChange, ProgramChange or
\* ChannelPressure sent alone is written in one write, and the written bytes,
\* read at a frame boundary, are delivered as one event of the same kind with
\* the same channel and data values.
C8_ChannelVoiceRoundTrip ==
    (Len(source) = 1 /\ source[1].type \in ChannelKinds /\ taken = 1)
        => /\ Len(out) = 1
           /\ out[1].op = "write"
           /\ \A k \in 1..Len(echo_pos) :
                 EchoRead(k) => (EchoEvents(k) = << source[1] >> /\
                                 TextsIn(echo_pos[k], rpos) = << >>)

\* a program change sent alone has come back from the peer and been delivered
\* after an earlier sysex frame
C8_Witness ==
    /\ Len(source) = 1
    /\ source[1] = Ev("PGMCHANGE", 15, 0, 127, <<>>)
    /\ Len(echo_pos) = 1
    /\ echo_pos[1] = 3
    /\ EchoRead(1)
    /\ Len(sink) = 2
    /\ sink[1].ev.type = "SYSEX"
    /\ sink[2].ev = source[1]

\* ------------------------------------------------------------------------
\* The whole bridge: both workers, the sources of input, and the signal

SmallScripts == { <<>>, <<248, 248>>, <<144, 144, 64, 127>>, <<240, 1, 247>>, <<64, 224, 0, 0, 255, 1, 104>> }

Init ==
    /\ run = TRUE
    /\ \E s \in SmallScripts : \E po \in BOOLEAN : ReaderInit(s, po)
    /\ \E q \in SeqsUpTo(BatchMsgs, MaxLoopEvents) : WriterInit(q)
    /\ MainInit

Next == Reader \/ Writer \/ Main \/ SourcePost \/ PeerEcho \/ Signal

Spec == Init /\ [][Next]_vars

\* ------------------------------------------------------------------------
\* Shutdown: the three threads under a fair scheduler.  The serial peer and
\* the ALSA clients owe nothing: the peer sends the script and then is
\* silent, a client may never send, the signal may never come.

\* serial traffic: none, or a text comment the framer recognises
LiveScripts == { <<>>, <<248, 0, 0, 255, 1, 104>> }

\* the events of the source: note ons, after a sysex or not
LiveBatches ==
    { q \in { s \o Fill(n, Ev("NOTEON", 0, 64, 127, <<>>)) :
                s \in { <<>>, << Sysex(SysexOfLen(3)) >> }, n \in 0..MaxLiveEvents } :
        Len(q) <= MaxLiveEvents }

InitLive ==
    /\ run = TRUE
    /\ \/ \E s \in LiveScripts : ReaderInit(s, FALSE)
       \/ ReaderInit(<<248>>, TRUE)
    /\ \E q \in LiveBatches : WriterInit(q)
    /\ MainInit

NextLive == Reader \/ Writer \/ Main \/ SourcePost \/ Signal

SpecLive ==
    InitLive /\ [][NextLive]_vars /\ WF_vars(Reader) /\ WF_vars(Writer) /\ WF_vars(Main)

\* C12: once run is cleared, both workers eventually stop at the test of
\* their loop.
C12_BothWorkersStop == (~run) ~> (rpc = "stopped" /\ wpc = "stopped")

C23_RestoreAfterWorkersStop ==
    (tty = "oldtio" \/ mpc = "done") => (rpc = "stopped" /\ wpc = "stopped")

====
